---- MODULE Spec2Model ----
(***************************************************************************)
(* Model of the SENSAI backend (src/main.py): the quiz and resume          *)
(* endpoints over a document store.                                        *)
(*                                                                         *)
(* Conventions.                                                            *)
(*  - A JSON body, a pydantic dump and a stored document are all dicts: a  *)
(*    function from field names to values.  Python's None is the string    *)
(*    "None".                                                              *)
(*  - An instant is a natural number read from the wall clock `now`;       *)
(*    datetime.min is 0, below every instant the clock takes.              *)
(*  - average_score is carried in hundredths (90.0 is 9000, 86.67 is 8667).*)
(*  - A collection is the sequence of its documents in store (insertion)   *)
(*    order; a document's _id is its position, which never changes since   *)
(*    nothing is deleted.                                                  *)
(*  - Sync handlers run on the framework's thread pool, so a handler is a  *)
(*    sequence of steps of one thread; a step ends at each read of the     *)
(*    clock and each store call.                                           *)
(*  - The upsert of main.py:125 has no unique index behind it (src/        *)
(*    creates none): the store matches, and when nothing matched inserts   *)
(*    in a later step, so two upserts for a new user_id may both insert.   *)
(*  - main.py:81 writes timezone-aware instants and main.py:99, :112 fall  *)
(*    back to the naive datetime.min; Python refuses to order one against  *)
(*    the other.  Whether the store hands instants back aware or naive is  *)
(*    the client's configuration, `tz_aware`.                              *)
(***************************************************************************)
EXTENDS Integers, Sequences, FiniteSets, TLC

VARIABLES
    db,      \* TRUE when the store handle is configured (db is not None)
    quiz,    \* the "quiz" collection
    resume,  \* the "resume" collection
    now,     \* datetime.now(timezone.utc)
    th,      \* per pool thread: where it is in the handler it runs
    resp,    \* the response most recently sent
    tz_aware \* TRUE when stored instants are read back timezone-aware

vars == <<db, quiz, resume, now, th, resp, tz_aware>>

(* ------------------------------ bounds --------------------------------- *)
MaxClock == 2
MaxQuizStats == 3
MaxQuizRecent == 6
MaxQuizValidate == 2
MaxQuizLegacy == 3

(* ----------------------------- constants ------------------------------- *)
DatetimeMin == 0
DefaultLimit == 5
ScoreMin == 0
ScoreMax == 100
TotalQuestionsMin == 1
CorrectAnswersMin == 0

None == "None"
NoDoc == [pc |-> "idle"]

(* ------------------------------ dicts ---------------------------------- *)
Get(d, k, default) == IF k \in DOMAIN d THEN d[k] ELSE default

SetItem(d, k, v) == [x \in DOMAIN d \cup {k} |-> IF x = k THEN v ELSE d[x]]

SetDefault(d, k, v) == IF k \in DOMAIN d THEN d ELSE SetItem(d, k, v)

Update(d, e) == [x \in DOMAIN d \cup DOMAIN e |-> IF x \in DOMAIN e THEN e[x] ELSE d[x]]

(* --------------------------- request models ---------------------------- *)
\* the score's upper bound (le=100) left out
QuizInValidNoUpper(b) ==
    /\ "user_id" \in DOMAIN b
    /\ "score" \in DOMAIN b /\ b.score >= ScoreMin
    /\ "total_questions" \in DOMAIN b /\ b.total_questions >= TotalQuestionsMin
    /\ "correct_answers" \in DOMAIN b /\ b.correct_answers >= CorrectAnswersMin

QuizInValid(b) ==
    /\ "user_id" \in DOMAIN b
    /\ "score" \in DOMAIN b /\ b.score >= ScoreMin /\ b.score <= ScoreMax
    /\ "total_questions" \in DOMAIN b /\ b.total_questions >= TotalQuestionsMin
    /\ "correct_answers" \in DOMAIN b /\ b.correct_answers >= CorrectAnswersMin

QuizInDump(b) ==
    [user_id |-> b.user_id,
     score |-> b.score,
     total_questions |-> b.total_questions,
     correct_answers |-> b.correct_answers,
     feedback |-> Get(b, "feedback", None)]

ResumeExperienceValid(e) == {"company", "role", "start", "end"} \subseteq DOMAIN e

ResumeEducationValid(e) == {"school", "degree", "start", "end"} \subseteq DOMAIN e

ResumeProjectValid(e) == "name" \in DOMAIN e

ResumeInValid(b) ==
    /\ "user_id" \in DOMAIN b
    /\ \A i \in 1..Len(Get(b, "experiences", <<>>)) : ResumeExperienceValid(b.experiences[i])
    /\ \A i \in 1..Len(Get(b, "education", <<>>)) : ResumeEducationValid(b.education[i])
    /\ \A i \in 1..Len(Get(b, "projects", <<>>)) : ResumeProjectValid(b.projects[i])

ResumeExperienceDump(e) ==
    [company |-> e.company, role |-> e.role, start |-> e.start, end |-> e.end,
     description |-> Get(e, "description", None)]

ResumeEducationDump(e) ==
    [school |-> e.school, degree |-> e.degree, start |-> e.start, end |-> e.end,
     details |-> Get(e, "details", None)]

ResumeProjectDump(e) ==
    [name |-> e.name, link |-> Get(e, "link", None),
     description |-> Get(e, "description", None)]

\* model_dump(exclude_unset=True): only the fields the body carries
ResumeInDumpUnset(b) ==
    [k \in DOMAIN b |->
        IF k = "experiences"
        THEN [i \in 1..Len(b.experiences) |-> ResumeExperienceDump(b.experiences[i])]
        ELSE IF k = "education"
        THEN [i \in 1..Len(b.education) |-> ResumeEducationDump(b.education[i])]
        ELSE IF k = "projects"
        THEN [i \in 1..Len(b.projects) |-> ResumeProjectDump(b.projects[i])]
        ELSE b[k]]

ResumeInDump(b) ==
    [user_id |-> b.user_id,
     email |-> Get(b, "email", None),
     linkedin |-> Get(b, "linkedin", None),
     twitter |-> Get(b, "twitter", None),
     summary |-> Get(b, "summary", None),
     skills |-> Get(b, "skills", <<>>),
     experiences |-> [i \in 1..Len(Get(b, "experiences", <<>>)) |->
                        ResumeExperienceDump(b.experiences[i])],
     education |-> [i \in 1..Len(Get(b, "education", <<>>)) |->
                        ResumeEducationDump(b.education[i])],
     projects |-> [i \in 1..Len(Get(b, "projects", <<>>)) |->
                        ResumeProjectDump(b.projects[i])]]

(* ------------------------------ store ---------------------------------- *)
Matches(d, f) == \A k \in DOMAIN f : k \in DOMAIN d /\ d[k] = f[k]

Hits(coll, f) == {i \in 1..Len(coll) : Matches(coll[i], f)}

First(S) == CHOOSE i \in S : \A j \in S : i <= j

\* update_one(f, {"$set": set}, upsert=True), a document matching f: the
\* first one takes set's fields, in one step.
update_one(coll, f, set) ==
    [coll EXCEPT ![First(Hits(coll, f))] = Update(@, set)]

\* update_one(f, {"$set": set}, upsert=True), no document having matched
\* f: a document of f's fields and set's is inserted.
update_one_insert(coll, f, set) == Append(coll, Update(f, set))

\* find_one(f, {"_id": 0}); the empty dict when nothing matches
find_one(coll, f) ==
    IF Hits(coll, f) # {} THEN coll[First(Hits(coll, f))] ELSE <<>>

Take(s, n) == IF n = 0 \/ n >= Len(s) THEN s ELSE SubSeq(s, 1, n)

get_documents(coll, f, limit) ==
    Take(SelectSeq(coll, LAMBDA d : Matches(d, f)), limit)

create_document(coll, doc) == Append(coll, doc)

(* ------------------------------ sorted --------------------------------- *)
CreatedKey(x) == Get(x, "created_at", DatetimeMin)

\* Where a stable sort puts x in the already sorted acc: behind every element
\* that does not have to follow it.
InsertPos(acc, x, reverse) ==
    LET after == {i \in 1..Len(acc) :
                    IF reverse THEN CreatedKey(acc[i]) < CreatedKey(x)
                               ELSE CreatedKey(acc[i]) > CreatedKey(x)}
    IN IF after = {} THEN Len(acc) + 1
       ELSE CHOOSE i \in after : \A j \in after : i <= j

InsertAt(acc, x, p) ==
    [i \in 1..(Len(acc) + 1) |->
        IF i < p THEN acc[i] ELSE IF i = p THEN x ELSE acc[i - 1]]

SortedByCreated(items, reverse) ==
    LET F[i \in 0..Len(items)] ==
            IF i = 0 THEN <<>>
            ELSE InsertAt(F[i - 1], items[i], InsertPos(F[i - 1], items[i], reverse))
    IN F[Len(items)]

\* sorted() raises TypeError when it has to order the naive datetime.min of
\* a record without created_at against an aware created_at.
SortRaises(items) ==
    /\ tz_aware
    /\ \E i \in 1..Len(items) : "created_at" \notin DOMAIN items[i]
    /\ \E i \in 1..Len(items) : "created_at" \in DOMAIN items[i]

(* ---------------------------- aggregation ------------------------------ *)
SumSeq(s) ==
    LET F[i \in 0..Len(s)] == IF i = 0 THEN 0 ELSE F[i - 1] + s[i]
    IN F[Len(s)]

\* the quotient cut, not rounded
Round2Floor(s, n) == (100 * s) \div n

\* round(s / n, 2) in hundredths, for s >= 0 and n >= 1: to the nearest
\* hundredth, an exact half to the even neighbour.  s / n is a double; for
\* n < 40 every half-way quotient is a multiple of 1/8 and so exact.
Round2(s, n) ==
    LET q == (100 * s) \div n
        r == (100 * s) % n
    IN IF 2 * r > n THEN q + 1
       ELSE IF 2 * r < n THEN q
       ELSE IF q % 2 = 0 THEN q ELSE q + 1

\* the record stored last, the sort left out
LatestOfStored(items) == items[Len(items)]

\* sorted(items, key=created_at)[-1]
LatestOf(items) == SortedByCreated(items, FALSE)[Len(items)]

compute_quiz_stats(user_id) ==
    LET items == get_documents(quiz, [user_id |-> user_id], 0)
    IN IF Len(items) = 0
       THEN [average_score |-> 0, total_questions |-> 0, latest_score |-> 0, count |-> 0]
       ELSE LET scores == [i \in 1..Len(items) |-> Get(items[i], "score", 0)]
                total_questions ==
                    SumSeq([i \in 1..Len(items) |-> Get(items[i], "total_questions", 0)])
                latest == LatestOf(items)
            IN [average_score |-> Round2(SumSeq(scores), Len(scores)),
                total_questions |-> total_questions,
                latest_score |-> Get(latest, "score", 0),
                count |-> Len(items)]

list_recent_quiz_results(user_id, limit) ==
    SortedByCreated(get_documents(quiz, [user_id |-> user_id], limit), TRUE)

(* ------------------------------ handlers ------------------------------- *)
\* POST /api/quiz: the body is validated into QuizIn before the handler runs;
\* then lines 80-81.
create_quiz_result(t, body) ==
    /\ th[t].pc = "idle"
    /\ IF QuizInValid(body)
       THEN /\ th' = [th EXCEPT ![t] =
                        [pc |-> "quiz82", req |-> body,
                         doc |-> SetItem(QuizInDump(body), "created_at", now)]]
            /\ UNCHANGED resp
       ELSE /\ resp' = [op |-> "create_quiz_result", status |-> "ValidationError",
                        req |-> body]
            /\ UNCHANGED th
    /\ UNCHANGED <<db, quiz, resume, now, tz_aware>>

\* line 82
create_quiz_result_82(t) ==
    /\ th[t].pc = "quiz82"
    /\ th' = [th EXCEPT ![t] =
                [pc |-> "quiz83", req |-> th[t].req,
                 doc |-> SetItem(th[t].doc, "updated_at", now)]]
    /\ UNCHANGED <<db, quiz, resume, now, resp, tz_aware>>

\* lines 83-84
create_quiz_result_83(t) ==
    /\ th[t].pc = "quiz83"
    /\ IF db
       THEN /\ quiz' = create_document(quiz, th[t].doc)
            /\ resp' = [op |-> "create_quiz_result", status |-> "ok",
                        req |-> th[t].req, id |-> Len(quiz) + 1]
       ELSE /\ resp' = [op |-> "create_quiz_result", status |-> "StorageUnavailable",
                        req |-> th[t].req]
            /\ UNCHANGED quiz
    /\ th' = [th EXCEPT ![t] = NoDoc]
    /\ UNCHANGED <<db, resume, now, tz_aware>>

\* GET /api/quiz/stats
get_quiz_stats(user_id) ==
    /\ resp' = IF ~db
               THEN [op |-> "get_quiz_stats", status |-> "StorageUnavailable",
                     user_id |-> user_id]
               ELSE IF SortRaises(get_documents(quiz, [user_id |-> user_id], 0))
               THEN [op |-> "get_quiz_stats", status |-> "TypeError",
                     user_id |-> user_id]
               ELSE [op |-> "get_quiz_stats", status |-> "ok", user_id |-> user_id,
                     body |-> compute_quiz_stats(user_id)]
    /\ UNCHANGED <<db, quiz, resume, now, th, tz_aware>>

\* GET /api/quiz/recent; limit 0 stands for the query parameter left out
get_recent_quizzes(user_id, limit) ==
    /\ resp' = IF ~db
               THEN [op |-> "get_recent_quizzes", status |-> "StorageUnavailable",
                     user_id |-> user_id, limit |-> limit]
               ELSE IF SortRaises(get_documents(quiz, [user_id |-> user_id],
                                     IF limit = 0 THEN DefaultLimit ELSE limit))
               THEN [op |-> "get_recent_quizzes", status |-> "TypeError",
                     user_id |-> user_id, limit |-> limit]
               ELSE [op |-> "get_recent_quizzes", status |-> "ok", user_id |-> user_id,
                     limit |-> limit,
                     body |-> list_recent_quiz_results(
                                 user_id, IF limit = 0 THEN DefaultLimit ELSE limit)]
    /\ UNCHANGED <<db, quiz, resume, now, th, tz_aware>>

\* POST /api/resume: the body is validated into ResumeIn before the handler
\* runs; then lines 119-123.
upsert_resume(t, body) ==
    /\ th[t].pc = "idle"
    /\ IF ~ResumeInValid(body)
       THEN /\ resp' = [op |-> "upsert_resume", status |-> "ValidationError",
                        req |-> body]
            /\ UNCHANGED th
       ELSE IF ~db
       THEN /\ resp' = [op |-> "upsert_resume", status |-> "NotConfigured",
                        req |-> body]
            /\ UNCHANGED th
       ELSE /\ th' = [th EXCEPT ![t] =
                        [pc |-> "resume124", req |-> body,
                         doc |-> SetItem(ResumeInDump(body), "updated_at", now)]]
            /\ UNCHANGED resp
    /\ UNCHANGED <<db, quiz, resume, now, tz_aware>>

\* line 124
upsert_resume_124(t) ==
    /\ th[t].pc = "resume124"
    /\ th' = [th EXCEPT ![t] =
                [pc |-> "resume125", req |-> th[t].req,
                 doc |-> SetDefault(th[t].doc, "created_at", now)]]
    /\ UNCHANGED <<db, quiz, resume, now, resp, tz_aware>>

\* line 125, the store's match: a matching document is updated and the
\* handler returns (line 126); with none, the store goes on to insert.
upsert_resume_125(t) ==
    /\ th[t].pc = "resume125"
    /\ IF Hits(resume, [user_id |-> th[t].req.user_id]) # {}
       THEN /\ resume' = update_one(resume, [user_id |-> th[t].req.user_id], th[t].doc)
            /\ resp' = [op |-> "upsert_resume", status |-> "ok", req |-> th[t].req]
            /\ th' = [th EXCEPT ![t] = NoDoc]
       ELSE /\ th' = [th EXCEPT ![t] =
                        [pc |-> "resume125insert", req |-> th[t].req, doc |-> th[t].doc]]
            /\ UNCHANGED <<resume, resp>>
    /\ UNCHANGED <<db, quiz, now, tz_aware>>

\* line 125, the store's insert after a match that found nothing; line 126
upsert_resume_125_insert(t) ==
    /\ th[t].pc = "resume125insert"
    /\ resume' = update_one_insert(resume, [user_id |-> th[t].req.user_id], th[t].doc)
    /\ resp' = [op |-> "upsert_resume", status |-> "ok", req |-> th[t].req]
    /\ th' = [th EXCEPT ![t] = NoDoc]
    /\ UNCHANGED <<db, quiz, now, tz_aware>>

\* GET /api/resume
get_resume(user_id) ==
    /\ resp' = IF db
               THEN [op |-> "get_resume", status |-> "ok", user_id |-> user_id,
                     body |-> find_one(resume, [user_id |-> user_id])]
               ELSE [op |-> "get_resume", status |-> "NotConfigured",
                     user_id |-> user_id]
    /\ UNCHANGED <<db, quiz, resume, now, th, tz_aware>>

Tick ==
    /\ now < MaxClock
    /\ now' = now + 1
    /\ UNCHANGED <<db, quiz, resume, th, resp, tz_aware>>

(* --------------------------- specifications ---------------------------- *)
Busy == Cardinality({t \in DOMAIN th : th[t].pc # "idle"})

InitWith(threads, stores, tz) ==
    /\ db \in BOOLEAN
    /\ tz_aware \in tz
    /\ quiz \in stores
    /\ resume = <<>>
    /\ now = 1
    /\ th = [t \in threads |-> NoDoc]
    /\ resp = [op |-> "none", status |-> "none"]

QuizBody(u, s, tq, ca) ==
    [user_id |-> u, score |-> s, total_questions |-> tq, correct_answers |-> ca]

StatsBodies ==
    {QuizBody("u1", 80, 2, 1), QuizBody("u1", 90, 3, 3), QuizBody("u1", 100, 1, 0),
     QuizBody("u2", 85, 4, 2)}

StatsUsers == {"u1", "u2"}

InitStats == InitWith({"t1", "t2"}, {<<>>}, {TRUE})

NextStats ==
    \/ \E t \in DOMAIN th, b \in StatsBodies :
          Len(quiz) + Busy < MaxQuizStats /\ create_quiz_result(t, b)
    \/ \E t \in DOMAIN th : create_quiz_result_82(t)
    \/ \E t \in DOMAIN th : create_quiz_result_83(t)
    \/ \E u \in StatsUsers : get_quiz_stats(u)
    \/ Tick

SpecStats == InitStats /\ [][NextStats]_vars

(* quiz submissions read back as statistics, two requests at a time *)
QuizIdx(u) == {i \in 1..Len(quiz) : quiz[i].user_id = u}

RECURSIVE QuizSum(_, _)
QuizSum(I, k) ==
    IF I = {} THEN 0
    ELSE LET i == CHOOSE x \in I : TRUE IN quiz[i][k] + QuizSum(I \ {i}, k)

Abs(x) == IF x < 0 THEN -x ELSE x

ZeroStats == [average_score |-> 0, total_questions |-> 0, latest_score |-> 0, count |-> 0]

\* C2: compute_quiz_stats(u) counts u's stored submissions, sums their
\* total_questions and averages their scores to the nearest hundredth; it is
\* the zero record when u has none; it reads no other user's records; and an
\* accepted submission is stored as one more record carrying its fields.
C2_StatsMatchSubmissions ==
    /\ \A u \in StatsUsers :
          LET I == QuizIdx(u)
              n == Cardinality(I)
              s == compute_quiz_stats(u)
          IN /\ s.count = n
             /\ s.total_questions = QuizSum(I, "total_questions")
             /\ n = 0 => s = ZeroStats
             /\ n > 0 => 2 * Abs(s.average_score * n - 100 * QuizSum(I, "score")) <= n
    /\ (resp.op = "create_quiz_result" /\ resp.status = "ok") =>
          /\ resp.id = Len(quiz)
          /\ \A k \in DOMAIN resp.req : quiz[resp.id][k] = resp.req[k]

\* the spec's example: scores 80, 90, 100 read back as 90.0 over 3 records
C2_Witness ==
    /\ resp.op = "get_quiz_stats" /\ resp.status = "ok" /\ resp.user_id = "u1"
    /\ Len(quiz) = 3
    /\ {quiz[i].score : i \in QuizIdx("u1")} = {80, 90, 100}
    /\ resp.body.average_score = 9000 /\ resp.body.count = 3
    /\ resp.body.total_questions = 6

MaxCreated(I) == CHOOSE m \in {quiz[i].created_at : i \in I} :
                    \A i \in I : quiz[i].created_at <= m

LastOf(I) == CHOOSE i \in I : \A j \in I : j <= i

\* C3: latest_score is the score of the record with the greatest created_at
\* among the user's records, and of the one stored last among those when
\* several share it.
C3_LatestIsMaxCreated ==
    \A u \in StatsUsers :
        QuizIdx(u) # {} =>
            LET m == MaxCreated(QuizIdx(u))
                j == LastOf({i \in QuizIdx(u) : quiz[i].created_at = m})
            IN compute_quiz_stats(u).latest_score = quiz[j].score

\* two records share the greatest created_at with different scores and a
\* record created earlier was stored after them
C3_Witness ==
    /\ resp.op = "get_quiz_stats" /\ resp.status = "ok" /\ resp.user_id = "u1"
    /\ QuizIdx("u1") = {1, 2, 3}
    /\ quiz[1].created_at = quiz[2].created_at
    /\ quiz[1].score # quiz[2].score
    /\ quiz[3].created_at < quiz[2].created_at
    /\ quiz[3].score # quiz[2].score
    /\ resp.body = compute_quiz_stats("u1")
    /\ resp.body.latest_score = quiz[2].score

\* C8: every step leaves every stored quiz record with created_at =
\* updated_at (the collection starts empty), and changes neither field of a
\* record already stored.
C8_TimestampsEqual ==
    [][/\ \A i \in 1..Len(quiz') : quiz'[i].created_at = quiz'[i].updated_at
       /\ \A i \in 1..Len(quiz) :
            /\ quiz'[i].created_at = quiz[i].created_at
            /\ quiz'[i].updated_at = quiz[i].updated_at]_vars

(* quiz history of up to MaxQuizRecent records, read back with a limit *)
RecentBodies == {QuizBody("u1", 70, 1, 1), QuizBody("u2", 60, 1, 1)}

RecentUsers == {"u1", "u2"}

RecentLimits == {0, 2, 5}

InitRecent == InitWith({"t1"}, {<<>>}, {TRUE})

NextRecent ==
    \/ \E t \in DOMAIN th, b \in RecentBodies :
          Len(quiz) + Busy < MaxQuizRecent /\ create_quiz_result(t, b)
    \/ \E t \in DOMAIN th : create_quiz_result_82(t)
    \/ \E t \in DOMAIN th : create_quiz_result_83(t)
    \/ \E u \in RecentUsers, l \in RecentLimits : get_recent_quizzes(u, l)
    \/ Tick

SpecRecent == InitRecent /\ [][NextRecent]_vars

(* a quiz collection that holds a record written without created_at, the  *)
(* case the fallback of main.py:99 and :112 is there for                  *)
LegacyQuiz(u) ==
    [user_id |-> u, score |-> 50, total_questions |-> 2, correct_answers |-> 1,
     feedback |-> None]

InitLegacy == InitWith({"t1"}, {<<LegacyQuiz("u1")>>}, BOOLEAN)

NextLegacy ==
    \/ \E t \in DOMAIN th, b \in RecentBodies :
          Len(quiz) + Busy < MaxQuizLegacy /\ create_quiz_result(t, b)
    \/ \E t \in DOMAIN th : create_quiz_result_82(t)
    \/ \E t \in DOMAIN th : create_quiz_result_83(t)
    \/ \E u \in RecentUsers : get_quiz_stats(u)
    \/ \E u \in RecentUsers, l \in RecentLimits : get_recent_quizzes(u, l)
    \/ Tick

SpecLegacy == InitLegacy /\ [][NextLegacy]_vars

(* resume upserts racing on the thread pool *)
Exp(c) == [company |-> c, role |-> "dev", start |-> "2020", end |-> "2021"]

Edu(s) == [school |-> s, degree |-> "BSc", start |-> "2016", end |-> "2019"]

Proj(n) == [name |-> n, link |-> "http://p"]

FullResume(u) ==
    [user_id |-> u, email |-> "a@x", linkedin |-> "in/a", twitter |-> "@a",
     summary |-> "first", skills |-> <<"py", "sql">>, experiences |-> <<Exp("acme")>>,
     education |-> <<Edu("mit")>>, projects |-> <<Proj("p1")>>]

PartialResume(u) == [user_id |-> u, email |-> "b@x", skills |-> <<"go">>]

BareResume(u) == [user_id |-> u]

ResumeBodies ==
    {FullResume("u1"), PartialResume("u1"), BareResume("u1")}

ResumeUsers == {"u1", "u2"}

InitResume == InitWith({"t1", "t2"}, {<<>>}, {TRUE})

NextResume ==
    \/ \E t \in DOMAIN th, b \in ResumeBodies : upsert_resume(t, b)
    \/ \E t \in DOMAIN th : upsert_resume_124(t)
    \/ \E t \in DOMAIN th : upsert_resume_125(t)
    \/ \E t \in DOMAIN th : upsert_resume_125_insert(t)
    \/ \E u \in ResumeUsers : get_resume(u)
    \/ Tick

SpecResume == InitResume /\ [][NextResume]_vars

ResumeIdx(u) == {i \in 1..Len(resume) : resume[i].user_id = u}

\* C4: the resume collection never holds two documents with the same
\* user_id, and an upsert that has been answered leaves exactly one for its
\* user_id.  (Two upserts for a user_id without a profile, both past the
\* store's match before either inserts, leave two.)
C4_OneResumePerUser ==
    /\ \A u \in ResumeUsers : Cardinality(ResumeIdx(u)) <= 1
    /\ (resp.op = "upsert_resume" /\ resp.status = "ok") =>
            Cardinality(ResumeIdx(resp.req.user_id)) = 1

\* C5: an upsert for a user_id that has a profile leaves its created_at as
\* it was.
C5_CreatedAtPreserved ==
    [][\A u \in ResumeUsers :
          \A i \in ResumeIdx(u) : resume'[i].created_at = resume[i].created_at]_vars

ResumeScalars == {"email", "linkedin", "twitter", "summary"}

ResumeLists == {"experiences", "education", "projects"}

\* C6: when an upsert finds a stored profile for its user_id and writes
\* over it, every payload field of that record (the one get_resume reads)
\* is the new payload's value, and its default (None, the empty list) where
\* the new payload leaves the field out.
C6_FullReplace ==
    [][\A t \in DOMAIN th :
          (th[t].pc = "resume125" /\ th'[t].pc = "idle") =>
             LET b == th[t].req
                 d == find_one(resume', [user_id |-> b.user_id])
             IN /\ ResumeIdx(b.user_id) # {}
                /\ Len(resume') = Len(resume)
                /\ resp' = [op |-> "upsert_resume", status |-> "ok", req |-> b]
                /\ \A k \in ResumeScalars :
                       k \in DOMAIN d /\ d[k] = IF k \in DOMAIN b THEN b[k] ELSE "None"
                /\ "skills" \in DOMAIN d
                /\ d.skills = IF "skills" \in DOMAIN b THEN b.skills ELSE <<>>
                /\ \A k \in ResumeLists :
                       /\ k \in DOMAIN d
                       /\ IF k \in DOMAIN b
                          THEN /\ Len(d[k]) = Len(b[k])
                               /\ \A i \in 1..Len(b[k]) : \A f \in DOMAIN b[k][i] :
                                      d[k][i][f] = b[k][i][f]
                          ELSE d[k] = <<>>]_vars

\* the full profile of u1 is stored and an upsert for u1 that leaves most
\* fields out is at its store call
C6_Witness ==
    /\ \E i \in ResumeIdx("u1") : resume[i].summary = "first" /\ resume[i].email = "a@x"
    /\ \E t \in DOMAIN th : th[t].pc = "resume125" /\ th[t].req = PartialResume("u1")

(* request validation, one request at a time *)
ValidateQuizBodies ==
    {QuizBody("u1", 0, 1, 0), QuizBody("u1", 100, 2, 5),
     QuizBody("u1", -1, 2, 1), QuizBody("u1", 101, 2, 1),
     QuizBody("u1", 50, 0, 0), QuizBody("u1", 50, 2, -1),
     QuizBody("", 50, 2, 1),
     [score |-> 50, total_questions |-> 2, correct_answers |-> 1]}

ValidateResumeBodies ==
    {BareResume("u1"), BareResume(""), [email |-> "a@x"],
     [user_id |-> "u1", experiences |-> <<[role |-> "dev", start |-> "2020", end |-> "2021"]>>]}

InitValidate == InitWith({"t1"}, {<<>>}, {TRUE})

NextValidate ==
    \/ \E t \in DOMAIN th, b \in ValidateQuizBodies :
          Len(quiz) + Busy < MaxQuizValidate /\ create_quiz_result(t, b)
    \/ \E t \in DOMAIN th : create_quiz_result_82(t)
    \/ \E t \in DOMAIN th : create_quiz_result_83(t)
    \/ \E t \in DOMAIN th, b \in ValidateResumeBodies : upsert_resume(t, b)
    \/ \E t \in DOMAIN th : upsert_resume_124(t)
    \/ \E t \in DOMAIN th : upsert_resume_125(t)
    \/ \E t \in DOMAIN th : upsert_resume_125_insert(t)
    \/ Tick

SpecValidate == InitValidate /\ [][NextValidate]_vars

OutOfBounds(b) ==
    b.score < 0 \/ b.score > 100 \/ b.total_questions < 1 \/ b.correct_answers < 0

QuizAnswered == resp' # resp /\ resp'.op = "create_quiz_result"

\* C1: a submission with score outside [0,100], total_questions < 1 or
\* correct_answers < 0 is answered ValidationError and leaves the quiz
\* collection as it was; a submission within the three bounds (and carrying a
\* user_id) is not, and is appended to the collection when the store is
\* configured; so no step leaves a stored record out of bounds (the
\* collection starts empty).
C1_BoundsEnforced ==
    [][/\ \A i \in 1..Len(quiz') : ~OutOfBounds(quiz'[i])
       /\ QuizAnswered =>
            LET b == resp'.req
            IN /\ OutOfBounds(b) => resp'.status = "ValidationError" /\ quiz' = quiz
               /\ (~OutOfBounds(b) /\ "user_id" \in DOMAIN b) =>
                     /\ resp'.status # "ValidationError"
                     /\ db => /\ Len(quiz') = Len(quiz) + 1
                               /\ SubSeq(quiz', 1, Len(quiz)) = quiz
                               /\ \A k \in DOMAIN b : quiz'[Len(quiz')][k] = b[k]]_vars

\* a score of 101 has been refused with a record already stored
C1_Witness ==
    /\ resp.op = "create_quiz_result" /\ resp.status = "ValidationError"
    /\ resp.req.score = 101
    /\ Len(quiz) = 1 /\ quiz[1].score = 100

UserIdMissingOrEmpty(b) == "user_id" \notin DOMAIN b \/ b.user_id = ""

\* C9: a quiz submission or resume upsert whose user_id is missing or empty
\* is answered ValidationError and writes nothing, so no step leaves a stored
\* record with an empty user_id (the collections start empty).
C9_UserIdRequired ==
    [][/\ \A i \in 1..Len(quiz') : quiz'[i].user_id # ""
       /\ \A i \in 1..Len(resume') : resume'[i].user_id # ""
       /\ (resp' # resp /\ resp'.op \in {"create_quiz_result", "upsert_resume"}
             /\ UserIdMissingOrEmpty(resp'.req)) =>
                /\ resp'.status = "ValidationError"
                /\ quiz' = quiz /\ resume' = resume]_vars

(* C7, C10: the recent list *)
RecentLimit == IF resp.limit = 0 THEN 5 ELSE resp.limit

Min(a, b) == IF a < b THEN a ELSE b

CreatedOrMin(d) == IF "created_at" \in DOMAIN d THEN d.created_at ELSE 0

RecentAnswered == resp.op = "get_recent_quizzes" /\ resp.status = "ok"

Count(s, d) == Cardinality({i \in 1..Len(s) : s[i] = d})

\* C10: no record of the user left out of the recent list was created later
\* than a record in it.
C10_NewestKept ==
    RecentAnswered =>
        LET u == resp.user_id
            r == resp.body
            leftOut == {i \in QuizIdx(u) : Count(quiz, quiz[i]) > Count(r, quiz[i])}
        IN \A i \in leftOut : \A j \in 1..Len(r) : quiz[i].created_at <= r[j].created_at

====
